---- MODULE Spec2Model ----
(***************************************************************************)
(* Model of pkg/templator (jsonnet.go): the path resolver                  *)
(* getJPathsAndFile / NewJsonnetTemplator, and the extraction pipeline     *)
(* Template -> jsonTok8sObjs -> jsonWalk -> Decode -> FlattenToV1.         *)
(***************************************************************************)
EXTENDS Integers, Sequences, FiniteSets, TLC

(***************************************************************************)
(* Decoded JSON values (what json.Unmarshal stores in an interface{}):     *)
(* nil, string, float64, bool, map[string]interface{}, []interface{}.      *)
(* The field t is the Go dynamic type, as printed by %T.                   *)
(***************************************************************************)
Null == [t |-> "<nil>"]
Str(s) == [t |-> "string", v |-> s]
Num == [t |-> "float64", v |-> "1"]
Bool == [t |-> "bool", v |-> "true"]
Map(m) == [t |-> "map", m |-> m]
Arr(s) == [t |-> "seq", s |-> s]

EmptyMap == [k \in {} |-> Null]

\* o[k] on a Go map: the nil interface when the key is absent.
MapGet(m, k) == IF k \in DOMAIN m THEN m[k] ELSE Null

\* m with key k set to value x.
MapSet(m, k, x) == [j \in (DOMAIN m) \cup {k} |-> IF j = k THEN x ELSE m[j]]

\* delete(m, k)
MapDelete(m, k) == [j \in (DOMAIN m) \ {k} |-> m[j]]

(***************************************************************************)
(* Errors.  kind "nil" is the nil error.                                   *)
(***************************************************************************)
NilErr == [kind |-> "nil", arg |-> ""]
Err(kind, arg) == [kind |-> kind, arg |-> arg]

\* Faulty variant: the default branch returns no error, so scalars are
\* skipped.
StructureErrorSwallowed(o) == NilErr

\* fmt.Errorf("Unexpected object structure: %T", o)
StructureError(o) == Err("StructureError", o.t)

(***************************************************************************)
(* jsonWalk.  A call is identified by the path of its argument below the   *)
(* top value; visited collects the paths jsonWalk was called on.  The      *)
(* operator yields the set of outcomes the call can have: ranging over a   *)
(* Go map visits the keys in an unspecified order.                         *)
(***************************************************************************)
Key(k) == [key |-> k]
Idx(i) == [idx |-> i]

\* All orders in which `range o` may visit the keys of a map.
Orders(S) == {f \in [1..Cardinality(S) -> S] : \A i, j \in 1..Cardinality(S) : f[i] = f[j] => i = j}

\* Faulty variant: the second key misspelt, so that nothing matches.
IsResourceMisspelt(m) == MapGet(m, "kind") # Null /\ MapGet(m, "apiversion") # Null

\* Faulty variant: || in place of &&.
IsResourceEither(m) == MapGet(m, "kind") # Null \/ MapGet(m, "apiVersion") # Null

\* o["kind"] != nil && o["apiVersion"] != nil
IsResource(m) == MapGet(m, "kind") # Null /\ MapGet(m, "apiVersion") # Null

RECURSIVE jsonWalk(_, _)
RECURSIVE walkChildren(_, _, _)

\* Faulty variant: ret = children, which forgets the earlier results.
appendChildrenOverwrite(ret, children) == children

\* Faulty variant: ret = append(children, ret...), which reverses the order.
appendChildrenFront(ret, children) == children \o ret

\* ret = append(ret, children...)
appendChildren(ret, children) == ret \o children

\* The loop body shared by both range loops: children is the sequence of
\* <<label, value>> in visiting order, acc the results appended so far.
walkChildren(children, path, acc) ==
  IF Len(children) = 0 THEN {acc}
  ELSE UNION {
         IF r.err # NilErr
           THEN {[ret |-> <<>>, err |-> r.err, visited |-> acc.visited \cup r.visited]}
           ELSE walkChildren(Tail(children), path,
                             [ret |-> appendChildren(acc.ret, r.ret), err |-> NilErr,
                              visited |-> acc.visited \cup r.visited])
         : r \in jsonWalk(Head(children)[2], Append(path, Head(children)[1])) }

jsonWalk(obj, path) ==
  LET start == [ret |-> <<>>, err |-> NilErr, visited |-> {path}]
  IN CASE obj.t = "map" ->
            IF IsResource(obj.m)
              THEN {[ret |-> <<obj>>, err |-> NilErr, visited |-> {path}]}
              ELSE UNION { walkChildren([i \in 1..Len(ord) |-> <<Key(ord[i]), obj.m[ord[i]]>>],
                                        path, start)
                           : ord \in Orders(DOMAIN obj.m) }
       [] obj.t = "seq" ->
            walkChildren([i \in 1..Len(obj.s) |-> <<Idx(i), obj.s[i]>>], path, start)
       [] OTHER ->
            {[ret |-> <<>>, err |-> StructureError(obj), visited |-> {path}]}

(***************************************************************************)
(* json.Marshal followed by unstructured.UnstructuredJSONScheme.Decode     *)
(* (jsonnet.go:116-123).  Marshalling a value that json.Unmarshal produced *)
(* cannot fail and decoding its bytes yields the same value again, so the  *)
(* decoder is modelled as working on the value.  The decoder is the one of *)
(* k8s.io/apimachinery: a document with an "items" field decodes to an     *)
(* UnstructuredList, any other to an Unstructured, and an object whose     *)
(* "kind" is not a non-empty string is refused.                            *)
(***************************************************************************)
Unstructured(m) == [t |-> "Unstructured", Object |-> m]
UnstructuredList(m, items) == [t |-> "UnstructuredList", Object |-> m, Items |-> items]

\* Unstructured.GetKind / GetAPIVersion: "" unless the field is a string.
GetString(m, k) == IF k \in DOMAIN m /\ m[k].t = "string" THEN m[k].v ELSE ""

\* strings.TrimSuffix(listKind, "List") on the kinds of the model.
TrimSuffixList(s) ==
  CASE s = "List" -> ""
    [] s = "PodList" -> "Pod"
    [] OTHER -> s

\* decodeToUnstructured: the item must be a JSON object; null gives an
\* object with no fields.
decodeToUnstructured(v) ==
  CASE v.t = "map" -> [err |-> NilErr, Object |-> v.m]
    [] v.t = "<nil>" -> [err |-> NilErr, Object |-> EmptyMap]
    [] OTHER -> [err |-> Err("UnmarshalTypeError", v.t), Object |-> EmptyMap]

\* The hack of decodeToList: an item with neither kind nor apiVersion gets
\* the ones inferred from the list.
inferTypeMeta(m, itemKind, listAPIVersion) ==
  IF GetString(m, "kind") = "" /\ GetString(m, "apiVersion") = ""
    THEN MapSet(MapSet(m, "kind", Str(itemKind)), "apiVersion", Str(listAPIVersion))
    ELSE m

decodeToList(m) ==
  LET items == m["items"]
      raw == IF items.t = "seq" THEN items.s ELSE <<>>
      bad == {i \in 1..Len(raw) : decodeToUnstructured(raw[i]).err # NilErr}
      first == CHOOSE i \in bad : \A j \in bad : i <= j
      itemKind == TrimSuffixList(GetString(m, "kind"))
      listAPIVersion == GetString(m, "apiVersion")
  IN IF items.t \notin {"seq", "<nil>"}
       THEN [err |-> Err("UnmarshalTypeError", items.t), obj |-> Unstructured(EmptyMap)]
     ELSE IF bad # {}
       THEN [err |-> decodeToUnstructured(raw[first]).err, obj |-> Unstructured(EmptyMap)]
     ELSE [err |-> NilErr,
           obj |-> UnstructuredList(MapDelete(m, "items"),
                     [i \in 1..Len(raw) |->
                        inferTypeMeta(decodeToUnstructured(raw[i]).Object,
                                      itemKind, listAPIVersion)])]

Decode(m) ==
  LET r == IF "items" \in DOMAIN m
             THEN decodeToList(m)
             ELSE [err |-> NilErr, obj |-> Unstructured(m)]
  IN IF r.err # NilErr THEN r
     ELSE IF GetString(r.obj.Object, "kind") = ""
       THEN [err |-> Err("MissingKind", ""), obj |-> Unstructured(EmptyMap)]
     ELSE r

(***************************************************************************)
(* FlattenToV1.  The result is the sequence of the objects the returned    *)
(* pointers refer to when the function returns.  `for _, item := range     *)
(* o.Items { ret = append(ret, &item) }` takes the address of the loop     *)
(* variable: with one variable per loop (Go before 1.22) every pointer of  *)
(* a list refers to the variable's final value, the last item; with one    *)
(* variable per iteration (Go 1.22 modules) each refers to its own item.   *)
(***************************************************************************)
flattenList(items, perIteration) ==
  IF perIteration THEN items ELSE [i \in 1..Len(items) |-> items[Len(items)]]

RECURSIVE FlattenToV1(_, _)
FlattenToV1(objs, perIteration) ==
  IF Len(objs) = 0 THEN [panicked |-> FALSE, ret |-> <<>>]
  ELSE LET o == Head(objs)
           rest == FlattenToV1(Tail(objs), perIteration)
       IN CASE o.t = "UnstructuredList" ->
                 [rest EXCEPT !.ret = flattenList(o.Items, perIteration) \o @]
            [] o.t = "Unstructured" ->
                 [rest EXCEPT !.ret = <<o.Object>> \o @]
            [] OTHER -> [panicked |-> TRUE, ret |-> <<>>]

(***************************************************************************)
(* jsonTok8sObjs.  jsonstr is the text the evaluation produced: either not *)
(* JSON, or a document, given by the value json.Unmarshal decodes it to.   *)
(***************************************************************************)
Invalid == [valid |-> FALSE, doc |-> Null]
Doc(v) == [valid |-> TRUE, doc |-> v]

\* json.Unmarshal([]byte(jsonstr), &top)
Unmarshal(jsonstr) ==
  IF jsonstr.valid THEN [err |-> NilErr, top |-> jsonstr.doc]
  ELSE [err |-> Err("SyntaxError", ""), top |-> Null]

\* The conversion loop of jsonTok8sObjs: the first object that fails to
\* decode ends the call; ret then holds the objects converted before it.
convertAll(objs) ==
  LET bad == {i \in 1..Len(objs) : Decode(objs[i].m).err # NilErr}
      first == CHOOSE i \in bad : \A j \in bad : i <= j
  IN IF bad # {}
       THEN [err |-> Decode(objs[first].m).err,
             ret |-> [i \in 1..(first - 1) |-> Decode(objs[i].m).obj]]
     ELSE [err |-> NilErr, ret |-> [i \in 1..Len(objs) |-> Decode(objs[i].m).obj]]

\* Faulty variant: the failing return hands back what was converted so far.
failedPartial(point, err, objs, visited, ret) ==
  [out |-> FlattenToV1(ret, TRUE).ret, err |-> err, fail |-> point, objs |-> objs,
   visited |-> visited, ret |-> ret]

\* `return nil, err`: a nil slice and the error, whatever the locals hold.
\* point names the statement that failed; objs, visited and ret are the
\* locals at that moment.
failed(point, err, objs, visited, ret) ==
  [out |-> <<>>, err |-> err, fail |-> point, objs |-> objs, visited |-> visited, ret |-> ret]

jsonTok8sObjs(jsonstr, perIteration) ==
  LET u == Unmarshal(jsonstr)
  IN IF u.err # NilErr THEN {failed("decode", u.err, <<>>, {}, <<>>)}
     ELSE { IF w.err # NilErr THEN failed("walk", w.err, w.ret, w.visited, <<>>)
            ELSE LET c == convertAll(w.ret)
                 IN IF c.err # NilErr THEN failed("convert", c.err, w.ret, w.visited, c.ret)
                    ELSE [out |-> FlattenToV1(c.ret, perIteration).ret, err |-> NilErr,
                          fail |-> "none", objs |-> w.ret, visited |-> w.visited,
                          ret |-> c.ret]
            : w \in jsonWalk(u.top, <<>>) }

(***************************************************************************)
(* getJPathsAndFile and NewJsonnetTemplator.  Paths are sequences of their *)
(* components (filepath.Join); "" and a nil slice are the empty sequence.  *)
(***************************************************************************)
errorMainNotFound == Err("errorMainNotFound", "couldn't find either main.jsonnet or main.libsonnet")

EnvNames == {"dev", "prod"}
Pwd == "/work"
EntryFile(path, name) == <<"environments", path, name>>
Candidates == {EntryFile(e, n) : e \in EnvNames, n \in {"main.libsonnet", "main.jsonnet"}}

\* os.Getwd: the working directory, or an error.
GetwdOutcomes == {[err |-> NilErr, dir |-> Pwd], [err |-> Err("Getwd", ""), dir |-> ""]}

\* os.Stat on a file that exists or not: success, ENOENT, or any other
\* failure (EIO stands for every error os.IsNotExist does not recognise).
StatOutcomes(exists) ==
  IF exists THEN {NilErr, Err("EIO", "")}
  ELSE {Err("ENOENT", ""), Err("EIO", "")}

IsNotExist(err) == err.kind = "ENOENT"

NotCalled == Err("not called", "")

\* statLib and statJsonnet are the results the two os.Stat calls give.
getJPathsAndFile(path, wd, statLib, statJsonnet) ==
  LET japths == <<<<wd.dir, "lib">>, <<wd.dir, "vendor">>, <<path, ".metadata">>>>
  IN IF wd.err # NilErr
       THEN [jpaths |-> <<>>, file |-> <<>>, err |-> wd.err]
     ELSE IF ~IsNotExist(statLib)
       THEN [jpaths |-> japths, file |-> EntryFile(path, "main.libsonnet"), err |-> NilErr]
     ELSE IF ~IsNotExist(statJsonnet)
       THEN [jpaths |-> japths, file |-> EntryFile(path, "main.jsonnet"), err |-> NilErr]
     ELSE [jpaths |-> <<>>, file |-> <<>>, err |-> errorMainNotFound]

NilJT == [nil |-> TRUE]

(***************************************************************************)
(* The inputs: the documents an evaluation can produce.                    *)
(***************************************************************************)
MaxItems == 2
MaxLen == 2

BoundedSeq(S, n) == UNION {[1..k -> S] : k \in 0..n}

Absent == [t |-> "absent"]

\* The JSON object with the fields of f that are not Absent.
Obj(f) == Map([k \in {j \in DOMAIN f : f[j] # Absent} |-> f[k]])

Desc(kind) == Obj([kind |-> Str(kind), apiVersion |-> Str("v1")])

Scalars == {Null, Str("x"), Num, Bool}

\* Objects with at most kind and apiVersion.
LeafMaps ==
  {Obj([kind |-> k, apiVersion |-> a]) :
     k \in {Absent, Null, Str("Pod"), Str("Svc"), Num}, a \in {Absent, Null, Str("v1")}}

InnerList == Obj([kind |-> Str("List"), apiVersion |-> Str("v1"), items |-> Arr(<<Desc("Pod")>>)])

ItemVals ==
  {Desc("Pod"), Desc("Svc"), Obj([kind |-> Str("Pod")]), Obj([apiVersion |-> Str("v1")]),
   Map(EmptyMap), Null, Str("x"), InnerList}

\* List wrappers: objects with kind, apiVersion and an items field.
Wrappers ==
  {Obj([kind |-> Str(k), apiVersion |-> Str("v1"), items |-> it]) :
     k \in {"List", "PodList"},
     it \in {Arr(q) : q \in BoundedSeq(ItemVals, MaxItems)} \cup {Null, Str("x")}}

\* Descriptors with something below them.
Nested ==
  {Obj([kind |-> Str("Pod"), apiVersion |-> Str("v1"), spec |-> x]) :
     x \in {Str("x"), Desc("Svc"), Arr(<<Desc("Svc")>>), Map(EmptyMap)}}

PodSvcList == Obj([kind |-> Str("List"), apiVersion |-> Str("v1"),
                   items |-> Arr(<<Desc("Pod"), Desc("Svc")>>)])

SlotVals ==
  {Desc("Pod"), Desc("Svc"), Obj([kind |-> Num, apiVersion |-> Str("v1")]),
   Obj([kind |-> Str("Pod")]), Map(EmptyMap), Arr(<<>>), Str("x"), Null,
   PodSvcList, Obj([kind |-> Str("Pod"), apiVersion |-> Str("v1"), spec |-> Desc("Svc")]),
   Arr(<<Desc("Svc")>>), Arr(<<Desc("Pod"), Desc("Svc")>>), Arr(<<Num>>),
   Obj([a |-> Desc("Svc")]), Obj([a |-> Desc("Pod"), b |-> Arr(<<Desc("Svc")>>)])}

Tops ==
  Scalars \cup LeafMaps \cup Wrappers \cup Nested
  \cup {Arr(q) : q \in BoundedSeq(SlotVals, MaxLen)}
  \cup {Obj([a |-> x, b |-> y, c |-> z]) : x, y, z \in SlotVals \cup {Absent}}

JsonTexts == {Invalid} \cup {Doc(v) : v \in Tops}

(***************************************************************************)
(* State.                                                                  *)
(***************************************************************************)
VARIABLES
  files,       \* the entry files that exist on disk
  jt,          \* the JsonnetTemplator (its file), or NilJT
  resolved,    \* what the last getJPathsAndFile call was given and returned
  jsonstr,     \* the text evaluating the entry file yields
  perIteration,\* whether the build gives range loops a variable per iteration
  pc,          \* "ready" before the call, "done" after it
  result       \* what the call returned, with the values of its locals

vars == <<files, jt, resolved, jsonstr, perIteration, pc, result>>

NoResult == [out |-> <<>>, err |-> NilErr, fail |-> "none", objs |-> <<>>,
             visited |-> {}, ret |-> <<>>]
NotResolved == [called |-> FALSE]

\* Template: read the entry file, evaluate it, hand the text to jsonTok8sObjs.
Template ==
  /\ pc = "ready"
  /\ jt # NilJT
  /\ \E read, eval \in BOOLEAN :
       IF ~read THEN result' = failed("read", Err("ReadFile", ""), <<>>, {}, <<>>)
       ELSE IF ~eval THEN result' = failed("eval", Err("EvaluateSnippet", ""), <<>>, {}, <<>>)
       ELSE result' \in jsonTok8sObjs(jsonstr, perIteration)
  /\ pc' = "done"
  /\ UNCHANGED <<files, jt, resolved, jsonstr, perIteration>>

\* NewJsonnetTemplator(path), getJPathsAndFile included.
NewJsonnetTemplator(path) ==
  /\ pc = "new"
  /\ \E wd \in GetwdOutcomes :
     \E statLib \in StatOutcomes(EntryFile(path, "main.libsonnet") \in files) :
     \E statJsonnet \in StatOutcomes(EntryFile(path, "main.jsonnet") \in files) :
       LET r == getJPathsAndFile(path, wd, statLib, statJsonnet)
       IN /\ resolved' = [called |-> TRUE, path |-> path, jpaths |-> r.jpaths,
                          file |-> r.file, err |-> r.err,
                          statLib |-> IF wd.err # NilErr THEN NotCalled ELSE statLib,
                          statJsonnet |-> IF wd.err = NilErr /\ IsNotExist(statLib)
                                            THEN statJsonnet ELSE NotCalled]
          /\ jt' = IF r.err # NilErr THEN NilJT ELSE [file |-> r.file, jpaths |-> r.jpaths]
  /\ UNCHANGED <<files, jsonstr, perIteration, pc, result>>

\* The pipeline, on a templator constructed for environment dev.
Init ==
  /\ files = {EntryFile("dev", "main.jsonnet")}
  /\ jt = [file |-> EntryFile("dev", "main.jsonnet"),
           jpaths |-> <<<<Pwd, "lib">>, <<Pwd, "vendor">>, <<"dev", ".metadata">>>>]
  /\ resolved = NotResolved
  /\ jsonstr \in JsonTexts
  /\ perIteration \in BOOLEAN
  /\ pc = "ready"
  /\ result = NoResult

Next == Template

Spec == Init /\ [][Next]_vars

\* The resolver, on every combination of entry files.
InitResolve ==
  /\ files \in SUBSET Candidates
  /\ jt = NilJT
  /\ resolved = NotResolved
  /\ jsonstr = Invalid
  /\ perIteration = FALSE
  /\ pc = "new"
  /\ result = NoResult

NextResolve == \E path \in EnvNames : NewJsonnetTemplator(path)

SpecResolve == InitResolve /\ [][NextResolve]_vars

(***************************************************************************)
(* Vocabulary of the properties, stated on the input value itself.         *)
(***************************************************************************)
top == jsonstr.doc

\* The call is over and its walk took place.
Walked == pc = "done" /\ result.fail \in {"walk", "convert", "none"}

NonNull(m, k) == k \in DOMAIN m /\ m[k].t # "<nil>"

\* A resource descriptor: a mapping with non-null kind and apiVersion.
IsDescriptor(v) == v.t = "map" /\ NonNull(v.m, "kind") /\ NonNull(v.m, "apiVersion")

IsScalar(v) == v.t \in {"<nil>", "string", "float64", "bool"}

RECURSIVE Paths(_)
Paths(v) ==
  {<<>>} \cup
  CASE v.t = "map" -> UNION {{<<Key(k)>> \o q : q \in Paths(v.m[k])} : k \in DOMAIN v.m}
    [] v.t = "seq" -> UNION {{<<Idx(i)>> \o q : q \in Paths(v.s[i])} : i \in 1..Len(v.s)}
    [] OTHER -> {}

RECURSIVE At(_, _)
At(v, p) ==
  IF Len(p) = 0 THEN v
  ELSE IF "key" \in DOMAIN Head(p) THEN At(v.m[Head(p).key], Tail(p))
  ELSE At(v.s[Head(p).idx], Tail(p))

StrictPrefix(p, q) == Len(p) < Len(q) /\ SubSeq(q, 1, Len(p)) = p

\* The positions the walk is to reach: those with no descriptor above them.
Reachable(v) ==
  {p \in Paths(v) : \A n \in 0..(Len(p) - 1) : ~IsDescriptor(At(v, SubSeq(p, 1, n)))}

ReachableScalars(v) == {p \in Reachable(v) : IsScalar(At(v, p))}

\* The outermost descriptors of v.
Outermost(v) == {p \in Reachable(v) : IsDescriptor(At(v, p))}

Occurrences(q, x) == Cardinality({i \in 1..Len(q) : q[i] = x})

RECURSIVE Concat(_)
Concat(qs) == IF Len(qs) = 0 THEN <<>> ELSE Head(qs) \o Concat(Tail(qs))

(***************************************************************************)
(* Properties of the pipeline (specification Spec).                        *)
(***************************************************************************)

\* A list wrapper: an object carrying an items collection.
IsListWrapper(m) == "items" \in DOMAIN m /\ m["items"].t = "seq"

\* C1: whenever the pipeline returns successfully, every element of the
\* output has non-null kind and non-null apiVersion and none is a list
\* wrapper.
C1_OutputElementsAreDescriptors ==
  (pc = "done" /\ result.err = NilErr) =>
    \A i \in 1..Len(result.out) :
      /\ NonNull(result.out[i], "kind")
      /\ NonNull(result.out[i], "apiVersion")
      /\ ~IsListWrapper(result.out[i])

\* What flattening is to append for one converted object.
Expand(o) == IF o.t = "UnstructuredList" THEN o.Items ELSE <<o.Object>>

\* C2: FlattenToV1 appends, in input order, the items i1..in of each list
\* wrapper, each individually and in the wrapper's order, and every other
\* object itself.
C2_FlattenKeepsItemsInOrder ==
  (pc = "done" /\ result.fail = "none") =>
    result.out = Concat([i \in 1..Len(result.ret) |-> Expand(result.ret[i])])

\* C3: the walk ends its descent at a descriptor: nothing below a visited
\* descriptor is visited, each visited descriptor is returned exactly once,
\* and a descriptor at top level is returned alone, with no error.
C3_MatchTerminatesDescent ==
  Walked =>
    LET hits == {p \in result.visited : IsDescriptor(At(top, p))}
    IN /\ \A p \in hits : \A q \in result.visited : ~StrictPrefix(p, q)
       /\ result.fail # "walk" =>
            /\ Len(result.objs) = Cardinality(hits)
            /\ \A p \in hits : Occurrences(result.objs, At(top, p)) >= 1
       /\ IsDescriptor(top) => result.fail # "walk" /\ result.objs = <<top>>

\* C3 witness: a top-level descriptor holding a descriptor and a scalar was
\* walked and came back alone.
C3_Witness ==
  /\ Walked
  /\ IsDescriptor(top)
  /\ "spec" \in DOMAIN top.m
  /\ IsDescriptor(top.m["spec"])
  /\ result.objs = <<top>>

\* C6: a scalar at any position the walk reaches fails the whole extraction
\* with a StructureError naming the type of the scalar met, and nothing is
\* returned.
C6_ScalarRejected ==
  Walked =>
    LET met == {p \in result.visited : IsScalar(At(top, p))}
    IN /\ (ReachableScalars(top) # {} \/ met # {}) =>
            /\ result.fail = "walk"
            /\ Cardinality(met) = 1
            /\ \A p \in met : result.err = Err("StructureError", At(top, p).t)
            /\ result.objs = <<>>
            /\ result.out = <<>>
       /\ met \subseteq ReachableScalars(top)

\* C6 witness: a scalar two levels down failed a walk of a value that also
\* holds a descriptor.
C6_Witness ==
  /\ Walked
  /\ result.fail = "walk"
  /\ \E p \in result.visited : IsScalar(At(top, p)) /\ Len(p) = 2
  /\ Outermost(top) # {}

\* C7: a call that fails at any point returns the error and a nil output; a
\* call that succeeds returns a nil error, every walked object converted and
\* one output element for every converted object or list item.  An error and a non-empty output never
\* come together.
C7_NoPartialResults ==
  pc = "done" =>
    /\ ~(result.err # NilErr /\ result.out # <<>>)
    /\ result.fail # "none" => result.err # NilErr /\ result.out = <<>>
    /\ result.fail = "none" =>
         /\ result.err = NilErr
         /\ Len(result.out) = Len(Concat([i \in 1..Len(result.ret) |-> Expand(result.ret[i])]))
    /\ ~jsonstr.valid => result.fail \in {"read", "eval", "decode"}
    /\ result.fail = "none" => Len(result.ret) = Len(result.objs)

\* C7 witness: a conversion failed after an earlier object had been
\* converted.
C7_Witness ==
  /\ pc = "done"
  /\ result.fail = "convert"
  /\ Len(result.ret) > 0
  /\ result.out = <<>>

\* C8: on an input with no scalar outside its descriptors the walk succeeds
\* and returns, as a multiset, exactly the outermost descriptors.
C8_RecursiveDiscovery ==
  (Walked /\ ReachableScalars(top) = {}) =>
    /\ result.fail # "walk"
    /\ Len(result.objs) = Cardinality(Outermost(top))
    /\ \A p \in Outermost(top) :
         Occurrences(result.objs, At(top, p))
           = Cardinality({q \in Outermost(top) : At(top, q) = At(top, p)})

\* C8 witness: one descriptor under key a and one in a sequence under key b
\* gave two descriptors.
C8_Witness ==
  /\ Walked
  /\ top = Obj([a |-> Desc("Pod"), b |-> Arr(<<Desc("Svc")>>)])
  /\ Len(result.objs) = 2

\* An element whose walk has one possible order: a descriptor, or a sequence
\* of descriptors.
Ordered(v) == IsDescriptor(v) \/ (v.t = "seq" /\ \A i \in 1..Len(v.s) : IsDescriptor(v.s[i]))
InOrder(v) == IF IsDescriptor(v) THEN <<v>> ELSE v.s

\* C9: walking a sequence concatenates the elements' results in sequence
\* order; when an element fails the walk stops there and returns nothing.
C9_SequenceOrder ==
  (Walked /\ top.t = "seq") =>
    /\ (\A i \in 1..Len(top.s) : Ordered(top.s[i])) =>
         /\ result.fail # "walk"
         /\ result.objs = Concat([i \in 1..Len(top.s) |-> InOrder(top.s[i])])
    /\ result.fail = "walk" =>
         /\ result.objs = <<>>
         /\ \E i \in 1..Len(top.s) :
              /\ \E p \in ReachableScalars(top) : Head(p) = Idx(i)
              /\ \A j \in 1..(i - 1) :
                   /\ <<Idx(j)>> \in result.visited
                   /\ \A p \in ReachableScalars(top) : Head(p) # Idx(j)
              /\ \A p \in result.visited : Len(p) > 0 => Head(p).idx <= i

\* C9 witness: a sequence of two different descriptors came back in order.
C9_Witness ==
  /\ Walked
  /\ top = Arr(<<Desc("Pod"), Desc("Svc")>>)
  /\ result.objs = <<Desc("Pod"), Desc("Svc")>>

\* A mapping with exactly one of kind / apiVersion non-null, a scalar.
HalfDescriptor(v) ==
  /\ v.t = "map"
  /\ \/ NonNull(v.m, "kind") /\ ~NonNull(v.m, "apiVersion") /\ IsScalar(v.m["kind"])
     \/ NonNull(v.m, "apiVersion") /\ ~NonNull(v.m, "kind") /\ IsScalar(v.m["apiVersion"])

\* C10: a mapping the walk reaches that has only one of kind / apiVersion,
\* a scalar, is neither returned nor skipped: the walk goes into it and the
\* extraction fails with a StructureError.  An empty mapping or sequence
\* gives an empty result and no error.
C10_HalfDescriptorFails ==
  Walked =>
    /\ \A p \in Reachable(top) :
         HalfDescriptor(At(top, p)) =>
           /\ result.fail = "walk"
           /\ result.err.kind = "StructureError"
           /\ result.out = <<>>
           /\ p \in result.visited =>
                \E q \in result.visited : StrictPrefix(p, q) /\ Len(q) = Len(p) + 1
    /\ top \in {Map(EmptyMap), Arr(<<>>)} =>
         /\ result.fail = "none"
         /\ result.err = NilErr
         /\ result.objs = <<>>
         /\ result.out = <<>>

\* C10 witness: {"kind":"Pod"} below the top was entered and failed the walk.
C10_Witness ==
  /\ Walked
  /\ result.fail = "walk"
  /\ \E p \in result.visited :
       /\ Len(p) = 1
       /\ At(top, p) = Obj([kind |-> Str("Pod")])
       /\ Append(p, Key("kind")) \in result.visited

(***************************************************************************)
(* Properties of the resolver (specification SpecResolve).                 *)
(***************************************************************************)
LibExists == EntryFile(resolved.path, "main.libsonnet") \in files
JsonnetExists == EntryFile(resolved.path, "main.jsonnet") \in files

\* C4: when neither main.libsonnet nor main.jsonnet exists, the resolver
\* fails with errorMainNotFound and returns no entry file and no import
\* paths, whatever the stat calls report.
C4_NotFoundWhenNeitherExists ==
  (resolved.called /\ ~LibExists /\ ~JsonnetExists) =>
    /\ resolved.err = errorMainNotFound
    /\ resolved.file = <<>>
    /\ resolved.jpaths = <<>>

\* C5: when both entry files exist the resolver selects main.libsonnet;
\* main.jsonnet is selected only when main.libsonnet does not exist and
\* main.jsonnet does.
C5_Precedence ==
  resolved.called =>
    /\ (LibExists /\ JsonnetExists /\ resolved.err = NilErr) =>
         resolved.file = EntryFile(resolved.path, "main.libsonnet")
    /\ resolved.file = EntryFile(resolved.path, "main.jsonnet") =>
         ~LibExists /\ JsonnetExists

====
